---------------------------- MODULE Spec2Model ----------------------------
(***************************************************************************)
(* Discord -> Next.js bridge bot.  Three live programs are modelled:       *)
(*   "multi"  : src/index.js lines 1-177   (multi-channel, batch POST)     *)
(*   "single" : src/index.js lines 333-469 (single-message, postToNext)    *)
(*   "debug"  : src/unnamed/part_000 lines 1-148 (debug-friendly batch)    *)
(* An async handler is split at its awaits: every action is one            *)
(* synchronous run of a handler between two suspension points.             *)
(***************************************************************************)
EXTENDS Integers, Sequences, FiniteSets, TLC

VARIABLES
    variant,   \* which of the three programs is running
    env,       \* process.env as read at module load
    quota,     \* how many more events (messages, reconnections) the environment brings
    phase,     \* "boot", "login", "connected", "offline", "exited"
    exitCode,  \* process exit code, -1 while running
    msgs,      \* every message created on the platform, in creation order
    hs,        \* event handler invocations, in dispatch order
    posts,     \* HTTP requests issued to the Next.js API, in order
    ncalls,    \* number of forward calls (postToNextBatch / postToNext) made
    lastCall,  \* what the latest step logged when a forward call returned in it
    delivered, \* what the network delivered to the handler in the latest step
    readyEmits, \* how many times the client has emitted "ready"
    raw,       \* the raw message handed to processMessage on its own
    processed  \* what processMessage returned for it

vars == <<variant, env, quota, phase, exitCode, msgs, hs, posts, ncalls, lastCall,
          delivered, readyEmits, raw, processed>>

-----------------------------------------------------------------------------
\* Bounds of the model.
MaxMsgs == 2
MaxBurst == 3
MaxBackfill == 1
MaxLen == 4

\* Values.
Undefined == "<undefined>"
Variants == {"multi", "single", "debug"}
Channels == {"c1", "c2"}
\* A channel the client has not cached: message.channel is null in its events.
UncachedChannels == {"dm"}
NoChannel == "<null>"
NoTag == "<none>"
Statuses == {200, 500}
UndefinedUrl == <<Undefined>>
BaseUrl == <<"http://next">>
ApiPath == <<"/", "api", "/", "discord">>

\* JavaScript truthiness of an environment string.
Falsy(v) == v = Undefined \/ v = ""
FalsyUrl(u) == u = UndefinedUrl \/ u = <<>>

\* (NEXT_API_URL, DISCORD_POST_SECRET) pairs: the two complete ones, and the
\* four in which one of the settings is missing or empty.
PlainForward == <<BaseUrl, "s">>
SlashForward == <<BaseUrl \o <<"/">>, "s">>
ForwardConfigs ==
    {PlainForward, SlashForward, <<UndefinedUrl, "s">>, <<<<>>, "s">>,
     <<BaseUrl, Undefined>>, <<BaseUrl, "">>}

\* (CHANNEL_ID, CHANNEL_WEATHER_ID, CHANNEL_STOCK_PREDICTOR_ID) triples.
OnlyLiveStock == <<"c1", Undefined, Undefined>>
OnlyWeather == <<Undefined, "c2", Undefined>>
OnlyPredictor == <<"", Undefined, "c2">>
NoChannels == <<Undefined, Undefined, Undefined>>
LiveStockAndWeather == <<"c1", "c2", Undefined>>
SameLiveStockAndWeather == <<"c1", "c1", Undefined>>

\* The (program, forwarding settings, channel settings) the model starts from.
Setups ==
    {<<"multi", f, OnlyLiveStock>> : f \in ForwardConfigs \ {SlashForward}}
    \cup {<<"multi", SlashForward, OnlyWeather>>, <<"multi", PlainForward, OnlyPredictor>>}
    \cup {<<"single", f, OnlyLiveStock>> : f \in ForwardConfigs \ {PlainForward}}
    \cup {<<"single", PlainForward, NoChannels>>}
    \cup {<<"debug", f, OnlyLiveStock>> : f \in ForwardConfigs \ {SlashForward}}
    \cup {<<"debug", SlashForward, NoChannels>>}

\* The setups of the backfill over two channels.
BackfillSetups ==
    {<<"multi", PlainForward, LiveStockAndWeather>>, <<"single", SlashForward, NoChannels>>}

\* The setups in which two settings hold the same channel id.
SameIdSetups ==
    {<<"multi", PlainForward, SameLiveStockAndWeather>>, <<"single", SlashForward, NoChannels>>}

\* The setups of the three-message bursts.
BurstSetups ==
    {<<"multi", PlainForward, OnlyWeather>>, <<"single", SlashForward, OnlyLiveStock>>,
     <<"debug", PlainForward, OnlyLiveStock>>}

EnvOf(tok, f, ch) ==
    [DISCORD_TOKEN |-> tok, NEXT_API_URL |-> f[1], DISCORD_POST_SECRET |-> f[2],
     CHANNEL_ID |-> ch[1], CHANNEL_WEATHER_ID |-> ch[2],
     CHANNEL_STOCK_PREDICTOR_ID |-> ch[3]]

Reverse(s) == [i \in 1..Len(s) |-> s[Len(s) + 1 - i]]

createdTimestamp(id) == 100 * id


\* Program constants.
BatchLimit == 2
BackfillLimit == 5
ALLOW_BOT_MESSAGES_FOR_DEBUG == FALSE

-----------------------------------------------------------------------------
\* Messages on the platform.

\* A message of a user, with a short text and no embeds; chan is the channel it
\* was created in, channel what message.channel?.id gives.
PlainMessage(id) ==
    [id |-> id, chan |-> NoChannel, channel |-> NoChannel, bot |-> FALSE,
     username |-> "user", content |-> [kind |-> "string", v |-> <<"h", "i">>],
     embeds |-> [kind |-> "array", v |-> <<>>],
     attachments |-> [kind |-> "array", v |-> <<>>]]

ChannelMessages(c) == SelectSeq(msgs, LAMBDA m : m.chan = c)

\* The newest `limit` messages of channel c, newest first.
Latest(c, limit) ==
    LET all == ChannelMessages(c)
        n == IF Len(all) < limit THEN Len(all) ELSE limit
    IN [i \in 1..n |-> all[Len(all) + 1 - i]]

\* What channel.messages.fetch({ limit }) may resolve to: the newest `limit`
\* messages, in the order the platform returned them (newest first in practice,
\* which the collection does not enforce).
FetchResults(c, limit) ==
    LET newest == Latest(c, limit)
        n == Len(newest)
    IN {[i \in 1..n |-> newest[p[i]]] : p \in Permutations(1..n)}

-----------------------------------------------------------------------------
\* processMessage.  A string is the sequence of its characters; the text a
\* replacement emits is kept in a few multi-character pieces, none of which
\* holds a character a later pattern looks for.

\* The JavaScript values a field of a raw message may hold.
Str(s) == [kind |-> "string", v |-> s]
Arr(a) == [kind |-> "array", v |-> a]
JsUndefined == [kind |-> "undefined", v |-> <<>>]
JsNull == [kind |-> "null", v |-> <<>>]
TypeError == [kind |-> "TypeError", v |-> <<>>]

\* x ?? y takes y when x is nullish; x || y and if (x) when x is falsy.
Nullish(x) == x.kind \in {"undefined", "null"}
Truthy(x) == ~Nullish(x) /\ Len(x.v) > 0

\* x?.length as a condition
HasLength(x) == ~Nullish(x) /\ Len(x.v) > 0

\* `${x}` in a template literal
ToText(x) ==
    CASE x.kind = "undefined" -> <<"undefined">>
      [] x.kind = "null" -> <<"null">>
      [] OTHER -> x.v

\* parts.join(sep)
RECURSIVE Join(_, _)
Join(parts, sep) ==
    IF Len(parts) = 0 THEN <<>>
    ELSE IF Len(parts) = 1 THEN parts[1]
    ELSE parts[1] \o sep \o Join(Tail(parts), sep)

\* `${f.name}: ${f.value}`
fieldLine(f) == ToText(f.name) \o <<":", " ">> \o ToText(f.value)

\* The callback of m.embeds.map: description, then the fields, under the title.
renderEmbed(e) ==
    LET desc0 == IF Nullish(e.description) THEN <<>> ELSE ToText(e.description)
        desc1 == IF HasLength(e.fields)
                 THEN desc0 \o <<"\n">>
                      \o Join([i \in 1..Len(e.fields.v) |-> fieldLine(e.fields.v[i])],
                              <<"\n">>)
                 ELSE desc0
    IN IF Truthy(e.title) THEN ToText(e.title) \o <<"\n">> \o desc1 ELSE desc1

\* m.embeds.map(...).join("\n")
renderEmbeds(embeds) ==
    Join([i \in 1..Len(embeds) |-> renderEmbed(embeds[i])], <<"\n">>)

\* A default that leaves a missing content as it is.
contentAsIs(c) == c

\* m.content ?? "" (m.content || "" in the single-message program)
contentOrEmpty(c) ==
    IF variant = "single"
    THEN IF Truthy(c) THEN c ELSE Str(<<>>)
    ELSE IF Nullish(c) THEN Str(<<>>) ELSE c

\* A selection that appends the embeds to the text instead of replacing it.
selectContentAppend(m) ==
    IF HasLength(m.embeds)
    THEN Str(ToText(contentOrEmpty(m.content)) \o renderEmbeds(m.embeds.v))
    ELSE contentOrEmpty(m.content)

\* let stockData = m.content ?? ""; if (m.embeds?.length) stockData = ...
selectContent(m) ==
    IF HasLength(m.embeds) THEN Str(renderEmbeds(m.embeds.v))
    ELSE contentOrEmpty(m.content)

Digits == {"0", "1", "2", "3", "4", "5", "6", "7", "8", "9"}
Letters ==
    {"a", "b", "c", "d", "e", "f", "g", "h", "i", "j", "k", "l", "m", "n", "o", "p",
     "q", "r", "s", "t", "u", "v", "w", "x", "y", "z", "A", "B", "C", "D", "E", "F",
     "G", "H", "I", "J", "K", "L", "M", "N", "O", "P", "Q", "R", "S", "T", "U", "V",
     "W", "X", "Y", "Z"}
\* [a-zA-Z0-9_]
NameChars == Letters \cup Digits \cup {"_"}
\* What . does not match.
LineTerminators == {"\n", "\r"}

\* Whether the literal lit stands at position i of s.
At(s, i, lit) == i + Len(lit) - 1 <= Len(s) /\ SubSeq(s, i, i + Len(lit) - 1) = lit

\* The last position of the longest run of characters of cs that starts at i
\* (i - 1 when there is none).
RECURSIVE RunEnd(_, _, _)
RunEnd(s, i, cs) ==
    IF i <= Len(s) /\ s[i] \in cs THEN RunEnd(s, i + 1, cs) ELSE i - 1

NoMatch == [end |-> 0, name |-> <<>>, digits |-> <<>>]

\* A match of /<:([a-zA-Z0-9_]+):(\d+)>/ at position i.
emojiMatch(s, i) ==
    IF ~At(s, i, <<"<", ":">>) THEN NoMatch
    ELSE LET ne == RunEnd(s, i + 2, NameChars) IN
         IF ne < i + 2 \/ ~At(s, ne + 1, <<":">>) THEN NoMatch
         ELSE LET de == RunEnd(s, ne + 2, Digits) IN
              IF de < ne + 2 \/ ~At(s, de + 1, <<">">>) THEN NoMatch
              ELSE [end |-> de + 1, name |-> SubSeq(s, i + 2, ne),
                    digits |-> SubSeq(s, ne + 2, de)]

\* The img element the emoji callback returns.
emojiImg(name, id) ==
    <<"<img src=\"https://cdn.discordapp.com/emojis/">> \o id \o <<".png\" alt=\"">>
    \o name \o <<"\" style=\"width:20px;height:20px;vertical-align:middle;\" />">>

\* A replacement without the g flag: only the first token is replaced.
RECURSIVE replaceEmojiFirst(_, _)
replaceEmojiFirst(s, i) ==
    IF i > Len(s) THEN <<>>
    ELSE LET m == emojiMatch(s, i) IN
         IF m.end > 0 THEN emojiImg(m.name, m.digits) \o SubSeq(s, m.end + 1, Len(s))
         ELSE <<s[i]>> \o replaceEmojiFirst(s, i + 1)

\* .replace(/<:([a-zA-Z0-9_]+):(\d+)>/g, ...) from position i on.
RECURSIVE replaceEmoji(_, _)
replaceEmoji(s, i) ==
    IF i > Len(s) THEN <<>>
    ELSE LET m == emojiMatch(s, i) IN
         IF m.end > 0 THEN emojiImg(m.name, m.digits) \o replaceEmoji(s, m.end + 1)
         ELSE <<s[i]>> \o replaceEmoji(s, i + 1)

\* A match of /<t:(\d+):R>/ at position i.
timestampMatch(s, i) ==
    IF ~At(s, i, <<"<", "t", ":">>) THEN NoMatch
    ELSE LET de == RunEnd(s, i + 3, Digits) IN
         IF de < i + 3 \/ ~At(s, de + 1, <<":", "R", ">">>) THEN NoMatch
         ELSE [end |-> de + 3, name |-> <<>>, digits |-> SubSeq(s, i + 3, de)]

DigitValue(d) == CHOOSE n \in 0..9 : ToString(n) = d

\* Number(ts)
RECURSIVE NumberOf(_)
NumberOf(ds) ==
    IF Len(ds) = 0 THEN 0
    ELSE 10 * NumberOf(SubSeq(ds, 1, Len(ds) - 1)) + DigitValue(ds[Len(ds)])

\* new Date(seconds * 1000).toLocaleTimeString(), here in a 24-hour locale in UTC.
toLocaleTimeString(seconds) ==
    LET t == seconds % 86400 IN
    <<ToString(t \div 3600), ":", ToString((t % 3600) \div 60), ":", ToString(t % 60)>>

\* .replace(/<t:(\d+):R>/g, ...) from position i on.
RECURSIVE replaceTimestamp(_, _)
replaceTimestamp(s, i) ==
    IF i > Len(s) THEN <<>>
    ELSE LET m == timestampMatch(s, i) IN
         IF m.end > 0
         THEN toLocaleTimeString(NumberOf(m.digits)) \o replaceTimestamp(s, m.end + 1)
         ELSE <<s[i]>> \o replaceTimestamp(s, i + 1)

\* Where (.*?)\*\* ends when tried from position j: the position of the first
\* "**" at or after j with no line terminator before it, 0 if there is none.
RECURSIVE boldClose(_, _)
boldClose(s, j) ==
    IF j + 1 > Len(s) THEN 0
    ELSE IF s[j] = "*" /\ s[j + 1] = "*" THEN j
    ELSE IF s[j] \in LineTerminators THEN 0
    ELSE boldClose(s, j + 1)

\* .replace(/\*\*(.*?)\*\*/g, "<strong>$1</strong>") from position i on.
RECURSIVE replaceBold(_, _)
replaceBold(s, i) ==
    IF i > Len(s) THEN <<>>
    ELSE LET c == IF At(s, i, <<"*", "*">>) THEN boldClose(s, i + 2) ELSE 0 IN
         IF c > 0
         THEN <<"<strong>">> \o SubSeq(s, i + 2, c - 1) \o <<"</strong>">>
              \o replaceBold(s, c + 2)
         ELSE <<s[i]>> \o replaceBold(s, i + 1)

\* stockData.replace(...).replace(...).replace(...): a TypeError when stockData
\* is not a string.
translate(x) ==
    IF x.kind # "string" THEN TypeError
    ELSE Str(replaceBold(replaceTimestamp(replaceEmoji(x.v, 1), 1), 1))

\* processMessage: the payload of a message.
processMessage(m, channelTag) ==
    [id |-> m.id,
     author |-> IF Falsy(m.username) THEN "Unknown" ELSE m.username,
     content |-> translate(selectContent(m)),
     createdAt |-> createdTimestamp(m.id),
     channel |-> channelTag]

-----------------------------------------------------------------------------
\* Handler invocations.

NewHandler(kind, trigger) ==
    [kind |-> kind, pc |-> "start", trigger |-> trigger, chan |-> NoChannel,
     tag |-> NoTag, todo |-> <<>>, call |-> 0, status |-> 0, result |-> "running"]

Done(hr, result) ==
    [NewHandler(hr.kind, hr.trigger) EXCEPT !.pc = "done", !.result = result]

AwaitPcs == {"chanFetch", "msgFetch", "post"}

Report(k, level, status, text) ==
    [call |-> k, level |-> level, status |-> status, text |-> text, threw |-> FALSE]

NoReport == Report(0, "none", 0, "")

\* The settlement of an HTTP exchange: a response and its body read, or a failure.
Delivery(op, status, bodyOk) == [op |-> op, status |-> status, bodyOk |-> bodyOk]

Nothing == Delivery("none", 0, TRUE)

\* processed before processMessage has returned.
NoPayload ==
    [id |-> 0, author |-> "", content |-> [kind |-> "none", v |-> <<>>],
     createdAt |-> 0, channel |-> NoTag]

InFlight == Cardinality({h \in 1..Len(hs) : hs[h].pc \in AwaitPcs})

\* The state one synchronous run of handler h works on.
Eff(h, hr) ==
    [h |-> h, hr |-> hr, posts |-> posts, ncalls |-> ncalls,
     lastCall |-> NoReport, returned |-> FALSE]

finish(E, result) == [E EXCEPT !.hr = Done(@, result)]

reject(E) == [E EXCEPT !.hr = [Done(@, "rejected") EXCEPT !.pc = "rejected"]]

-----------------------------------------------------------------------------
\* Forwarders.

\* A guard that forgets the secret.
SkipPostUrlOnly == FalsyUrl(env.NEXT_API_URL)

\* if (!NEXT_API_URL || !POST_SECRET)
SkipPost == FalsyUrl(env.NEXT_API_URL) \/ Falsy(env.DISCORD_POST_SECRET)

\* NEXT_API_URL.replace(/\/$/, "")
StripTrailingSlash(u) ==
    IF Len(u) > 0 /\ u[Len(u)] = "/" THEN SubSeq(u, 1, Len(u) - 1) ELSE u

BatchUrl == StripTrailingSlash(env.NEXT_API_URL) \o ApiPath
SingleUrl == env.NEXT_API_URL \o ApiPath

\* One fetch(url, { method: "POST", ... }) issued by forward call k of E's handler.
Request(E, k, url, body) ==
    [call |-> k, h |-> E.h, kind |-> E.hr.kind, trigger |-> E.hr.trigger,
     chan |-> E.hr.chan, url |-> url, body |-> body]

\* The synchronous part of a forward call: the guard, then the request.
forward(E, url, body) ==
    LET k == E.ncalls + 1 IN
    IF SkipPost
    THEN [E EXCEPT !.ncalls = k, !.lastCall = Report(k, "warn", 0, ""),
                   !.returned = TRUE]
    ELSE [E EXCEPT !.ncalls = k, !.posts = Append(@, Request(E, k, url, body)),
                   !.hr.pc = "post", !.hr.call = k, !.returned = FALSE]

postToNextBatch(E, channelTag, messagesArray) ==
    forward(E, BatchUrl,
            [shape |-> "envelope", channel |-> channelTag, messages |-> messagesArray])

postToNext(E, payload) ==
    forward(E, SingleUrl,
            [shape |-> "payload", channel |-> NoTag, messages |-> <<payload>>])

-----------------------------------------------------------------------------
\* Continuations of the handlers.

\* A channel list that puts the Weather channel first.
channelListWeatherFirst ==
    SelectSeq(<<[id |-> env.CHANNEL_WEATHER_ID, tag |-> "Weather"],
                [id |-> env.CHANNEL_ID, tag |-> "LiveStock"],
                [id |-> env.CHANNEL_STOCK_PREDICTOR_ID, tag |-> "StockPredictor"]>>,
              LAMBDA c : ~Falsy(c.id))

\* [ {id: CHANNEL_ID, tag: "LiveStock"}, ... ].filter((c) => c.id)
channelList ==
    SelectSeq(<<[id |-> env.CHANNEL_ID, tag |-> "LiveStock"],
                [id |-> env.CHANNEL_WEATHER_ID, tag |-> "Weather"],
                [id |-> env.CHANNEL_STOCK_PREDICTOR_ID, tag |-> "StockPredictor"]>>,
              LAMBDA c : ~Falsy(c.id))

\* for (const ch of channelList) await fetchAndPostLatest(ch): the next round.
nextChannel(E) ==
    IF E.hr.todo = <<>> THEN finish(E, "completed")
    ELSE [E EXCEPT !.hr.pc = "chanFetch", !.hr.chan = Head(E.hr.todo).id,
                   !.hr.tag = Head(E.hr.todo).tag, !.hr.todo = Tail(@),
                   !.hr.call = 0, !.hr.status = 0, !.returned = FALSE]

\* What the handler does once its awaited forward call has returned.
RECURSIVE resume(_)
resume(E) ==
    IF E.hr.kind = "messageCreate" THEN finish(E, "completed")
    ELSE IF variant = "multi" THEN nextChannel(E)
    ELSE IF variant = "debug" THEN finish(E, "completed")
    ELSE \* single: for (const msg of messages.map(processMessage)) await postToNext(msg)
         IF E.hr.todo = <<>> THEN finish(E, "completed")
         ELSE LET E2 == postToNext([E EXCEPT !.hr.todo = Tail(@)], Head(E.hr.todo))
              IN IF E2.returned THEN resume(E2) ELSE E2

\* A backfill that gives up on the remaining channels when one of them throws.
caughtAbort(E) == finish(E, "failed")

\* A handler whose awaited operation threw inside its try block.
caught(E) ==
    IF E.hr.kind = "ready" /\ variant = "multi" THEN nextChannel(E)
    ELSE finish(E, "failed")

-----------------------------------------------------------------------------
\* Event handlers, up to their first await.

\* client.once("ready", ...)
readyHandler(E) ==
    IF variant = "multi" THEN nextChannel([E EXCEPT !.hr.todo = channelList])
    ELSE IF Falsy(env.CHANNEL_ID) THEN finish(E, "skipped")
    ELSE [E EXCEPT !.hr.pc = "chanFetch", !.hr.chan = env.CHANNEL_ID]

\* A lookup that falls back to the first tag for an unknown channel.
mappingDefaultTag(id) == "LiveStock"

\* A computed key of an object literal: undefined becomes the key "undefined".
Key(v) == IF v = Undefined THEN "undefined" ELSE v

\* mapping[id] of the multi-channel handler; a later duplicate key wins.
mapping(id) ==
    IF Key(env.CHANNEL_STOCK_PREDICTOR_ID) = id THEN "StockPredictor"
    ELSE IF Key(env.CHANNEL_WEATHER_ID) = id THEN "Weather"
    ELSE IF Key(env.CHANNEL_ID) = id THEN "LiveStock"
    ELSE NoTag

\* message.channel?.id of an event; NoChannel when message.channel is null.
messageCreateMulti(E, message) ==
    LET id == message.channel IN
    IF id = NoChannel THEN finish(E, "ignored")
    ELSE IF mapping(id) = NoTag THEN finish(E, "ignored")
    ELSE [E EXCEPT !.hr.pc = "msgFetch", !.hr.chan = id, !.hr.tag = mapping(id)]

messageCreateDebug(E, message) ==
    IF ~ALLOW_BOT_MESSAGES_FOR_DEBUG THEN finish(E, "ignored")
    ELSE IF ~Falsy(env.CHANNEL_ID) /\ message.channel # env.CHANNEL_ID
    THEN finish(E, "ignored")
    ELSE IF message.channel = NoChannel THEN finish(E, "failed")
    ELSE [E EXCEPT !.hr.pc = "msgFetch", !.hr.chan = message.channel]

messageCreateSingle(E, message) ==
    IF message.channel = NoChannel THEN reject(E)
    ELSE IF message.bot THEN finish(E, "ignored")
    ELSE IF ~Falsy(env.CHANNEL_ID) /\ message.channel # env.CHANNEL_ID
    THEN finish(E, "ignored")
    ELSE LET E1 == [E EXCEPT !.hr.chan = message.channel]
             E2 == postToNext(E1, processMessage(message, NoTag))
         IN IF E2.returned THEN resume(E2) ELSE E2

messageCreate(E, message) ==
    CASE variant = "multi" -> messageCreateMulti(E, message)
      [] variant = "debug" -> messageCreateDebug(E, message)
      [] OTHER -> messageCreateSingle(E, message)

-----------------------------------------------------------------------------
\* Continuations after each await.

\* await client.channels.fetch(id) settled: "ok", "null" or "throw".
onChannelFetched(E, outcome) ==
    IF outcome = "ok" THEN [E EXCEPT !.hr.pc = "msgFetch"]
    ELSE IF variant = "multi" /\ outcome = "null" THEN nextChannel(E)
    ELSE caught(E)

FetchLimit(hr) ==
    IF variant = "single" /\ hr.kind = "ready" THEN BackfillLimit ELSE BatchLimit

\* Array.from(messagesCol.values()).reverse().map((m) => processMessage(m, tag))
batchOf(col, tag) ==
    [i \in 1..Len(col) |-> processMessage(Reverse(col)[i], tag)]

\* messages.map(processMessage) of the single-message backfill
backfillOf(col) == [i \in 1..Len(col) |-> processMessage(col[i], NoTag)]

\* await channel.messages.fetch({ limit }) resolved to the collection col.
onMessagesFetched(E, col) ==
    IF variant = "single"
    THEN resume([E EXCEPT !.hr.todo = backfillOf(col)])
    ELSE LET batch == batchOf(col, E.hr.tag) IN
         IF E.hr.kind = "ready" /\ Len(batch) = 0 THEN resume(E)
         ELSE LET E2 == postToNextBatch(E, E.hr.tag, batch)
              IN IF E2.returned THEN resume(E2) ELSE E2

\* const text = await res.text().catch(() => "<no body>")
readText(ok) == IF ok THEN "body" ELSE "<no body>"

\* A forwarder that sends the request again when the transport fails.
onTransportFailureRetry(E) ==
    LET sent == CHOOSE i \in 1..Len(E.posts) : E.posts[i].call = E.hr.call
    IN [E EXCEPT !.posts = Append(@, E.posts[sent])]

\* await fetch(...) rejected: the catch block of the forwarder.
onTransportFailure(E) ==
    resume([E EXCEPT !.lastCall = Report(E.hr.call, "error", 0, "")])

\* A body read whose rejection falls through to the forwarder's catch block.
onBodyUncaught(E, ok) ==
    IF ok
    THEN resume([E EXCEPT !.lastCall = Report(E.hr.call, "info", E.hr.status, "body")])
    ELSE onTransportFailure(E)

\* res.text() settled; both console.log lines, then the call returns.
onBody(E, ok) ==
    resume([E EXCEPT !.lastCall = Report(E.hr.call, "info", E.hr.status, readText(ok))])

\* await fetch(...) resolved with a response of the given status; postToNext
\* logs it and returns, postToNextBatch goes on to await res.text().
onResponse(E, status, ok) ==
    IF variant = "single"
    THEN resume([E EXCEPT !.lastCall = Report(E.hr.call, "info", status, "")])
    ELSE onBody([E EXCEPT !.hr.pc = "body", !.hr.status = status], ok)

-----------------------------------------------------------------------------
\* Actions.

Apply(h, E) ==
    /\ hs' = [i \in 1..(IF h > Len(hs) THEN h ELSE Len(hs)) |->
                 IF i = h THEN E.hr ELSE hs[i]]
    /\ posts' = E.posts
    /\ ncalls' = E.ncalls
    /\ lastCall' = E.lastCall

\* A check that takes only an unset variable for a missing token.
TokenUnset == env.DISCORD_TOKEN = Undefined

\* !process.env.DISCORD_TOKEN
TokenMissing == Falsy(env.DISCORD_TOKEN)

\* if (!process.env.DISCORD_TOKEN) process.exit(1); else client.login(...)
Boot ==
    /\ phase = "boot"
    /\ IF TokenMissing
       THEN phase' = "exited" /\ exitCode' = 1
       ELSE phase' = "login" /\ exitCode' = exitCode
    /\ lastCall' = NoReport
    /\ delivered' = Nothing
    /\ UNCHANGED <<variant, env, raw, processed, readyEmits, quota, msgs, hs, posts, ncalls>>

\* client.login(...).catch(...)
LoginFail ==
    /\ phase = "login"
    /\ IF variant = "single"
       THEN phase' = "exited" /\ exitCode' = 1
       ELSE phase' = "offline" /\ exitCode' = exitCode
    /\ lastCall' = NoReport
    /\ delivered' = Nothing
    /\ UNCHANGED <<variant, env, raw, processed, readyEmits, quota, msgs, hs, posts, ncalls>>

\* client.on("ready", ...): a listener that stays registered after it has run.
readyListeningOn(emitted) == TRUE

\* client.once("ready", ...): the listener is removed by the first "ready".
readyListening(emitted) == emitted = 0

\* The client emits "ready": the handler runs if its listener is registered.
EmitReady ==
    /\ readyEmits' = readyEmits + 1
    /\ IF readyListening(readyEmits)
       THEN Apply(Len(hs) + 1, readyHandler(Eff(Len(hs) + 1, NewHandler("ready", 0))))
       ELSE lastCall' = NoReport /\ UNCHANGED <<hs, posts, ncalls>>
    /\ delivered' = Nothing

\* Login succeeded and the client emitted "ready".
Ready ==
    /\ phase = "login"
    /\ phase' = "connected"
    /\ EmitReady
    /\ UNCHANGED <<variant, env, raw, processed, quota, exitCode, msgs>>

\* The gateway connection dropped and came back, and "ready" is emitted again.
Reconnect ==
    /\ phase = "connected"
    /\ quota > 0
    /\ quota' = quota - 1
    /\ EmitReady
    /\ UNCHANGED <<variant, env, raw, processed, phase, exitCode, msgs>>

\* author.bot is read by the single-message variant only.
BotFlags == IF variant = "single" THEN BOOLEAN ELSE {FALSE}

\* A message is created in channel c; a connected client gets messageCreate.
Arrive(c, bot) ==
    /\ quota > 0
    /\ quota' = quota - 1
    /\ phase \in {"login", "connected"}
    /\ c \in UncachedChannels => phase = "connected" /\ ~bot
    /\ LET id == Len(msgs) + 1
           message == [PlainMessage(id) EXCEPT
                          !.bot = bot,
                          !.channel = IF c \in UncachedChannels THEN NoChannel ELSE c]
       IN /\ msgs' = Append(msgs, [PlainMessage(id) EXCEPT !.chan = c, !.bot = bot])
          /\ IF phase = "connected"
             THEN Apply(Len(hs) + 1,
                        messageCreate(Eff(Len(hs) + 1, NewHandler("messageCreate", id)),
                                      message))
             ELSE lastCall' = NoReport /\ UNCHANGED <<hs, posts, ncalls>>
    /\ delivered' = Nothing
    /\ UNCHANGED <<variant, env, raw, processed, readyEmits, phase, exitCode>>

ChannelFetchSettle(h, outcome) ==
    /\ phase = "connected"
    /\ hs[h].pc = "chanFetch"
    /\ Apply(h, onChannelFetched(Eff(h, hs[h]), outcome))
    /\ delivered' = Nothing
    /\ UNCHANGED <<variant, env, raw, processed, readyEmits, quota, phase, exitCode, msgs>>

MessagesFetchResolve(h, col) ==
    /\ phase = "connected"
    /\ hs[h].pc = "msgFetch"
    /\ col \in FetchResults(hs[h].chan, FetchLimit(hs[h]))
    /\ Apply(h, onMessagesFetched(Eff(h, hs[h]), col))
    /\ delivered' = Nothing
    /\ UNCHANGED <<variant, env, raw, processed, readyEmits, quota, phase, exitCode, msgs>>

MessagesFetchReject(h) ==
    /\ phase = "connected"
    /\ hs[h].pc = "msgFetch"
    /\ Apply(h, caught(Eff(h, hs[h])))
    /\ delivered' = Nothing
    /\ UNCHANGED <<variant, env, raw, processed, readyEmits, quota, phase, exitCode, msgs>>

\* The response arrives and, in the batch forwarders, its body read settles
\* (ok or not); no other handler reads anything the two steps write between them.
HttpRespond(h, status, ok) ==
    /\ phase = "connected"
    /\ hs[h].pc = "post"
    /\ variant = "single" => ok
    /\ Apply(h, onResponse(Eff(h, hs[h]), status, ok))
    /\ delivered' = Delivery("response", status, ok)
    /\ UNCHANGED <<variant, env, raw, processed, readyEmits, quota, phase, exitCode, msgs>>

HttpFail(h) ==
    /\ phase = "connected"
    /\ hs[h].pc = "post"
    /\ Apply(h, onTransportFailure(Eff(h, hs[h])))
    /\ delivered' = Delivery("failure", 0, TRUE)
    /\ UNCHANGED <<variant, env, raw, processed, readyEmits, quota, phase, exitCode, msgs>>

\* Node ends the process on an unhandled promise rejection (it may also only warn).
UnhandledRejection ==
    /\ phase = "connected"
    /\ \E h \in 1..Len(hs) : hs[h].pc = "rejected"
    /\ phase' = "exited" /\ exitCode' = 1
    /\ lastCall' = NoReport
    /\ delivered' = Nothing
    /\ UNCHANGED <<variant, env, raw, processed, readyEmits, quota, msgs, hs, posts, ncalls>>

InitWith(setups, n) ==
    /\ \E su \in setups, tok \in {Undefined, "", "t"} :
          variant = su[1] /\ env = EnvOf(tok, su[2], su[3])
    /\ quota = n
    /\ phase = "boot"
    /\ exitCode = -1
    /\ msgs = <<>>
    /\ hs = <<>>
    /\ posts = <<>>
    /\ ncalls = 0
    /\ lastCall = NoReport
    /\ delivered = Nothing
    /\ readyEmits = 0
    /\ raw = PlainMessage(0)
    /\ processed = NoPayload

Init == InitWith(Setups, MaxMsgs)

InitBurst == InitWith(BurstSetups, MaxBurst)

InitBackfill == InitWith(BackfillSetups, MaxBackfill)

Next ==
    \/ Boot
    \/ LoginFail
    \/ Ready
    \/ Reconnect
    \/ \E c \in Channels \cup UncachedChannels, bot \in BotFlags : Arrive(c, bot)
    \/ \E h \in 1..Len(hs), outcome \in {"ok", "null", "throw"} :
          ChannelFetchSettle(h, outcome)
    \/ \E h \in 1..Len(hs) :
          \E col \in FetchResults(hs[h].chan, FetchLimit(hs[h])) :
             MessagesFetchResolve(h, col)
    \/ \E h \in 1..Len(hs) : MessagesFetchReject(h)
    \/ \E h \in 1..Len(hs), status \in Statuses, ok \in BOOLEAN :
          HttpRespond(h, status, ok)
    \/ \E h \in 1..Len(hs) : HttpFail(h)
    \/ UnhandledRejection

Spec == Init /\ [][Next]_vars

\* Bursts of MaxBurst messages, from fewer setups.
SpecBurst == InitBurst /\ [][Next]_vars

\* The startup backfill over two configured channels.
SpecBackfill == InitBackfill /\ [][Next]_vars

InitSameId == InitWith(SameIdSetups, MaxMsgs)

\* Two channel settings that hold the same id.
SpecSameId == InitSameId /\ [][Next]_vars

-----------------------------------------------------------------------------
\* Message fetches whose answer is older than their completion.

\* The newest `limit` messages of channel c when the platform held its first n
\* messages, in any order.
FetchResultsAt(c, limit, n) ==
    LET all == SelectSeq(SubSeq(msgs, 1, n), LAMBDA m : m.chan = c)
        k == IF Len(all) < limit THEN Len(all) ELSE limit
        newest == [i \in 1..k |-> all[Len(all) + 1 - i]]
    IN {[i \in 1..k |-> newest[p[i]]] : p \in Permutations(1..k)}

\* The moments at which the platform may have answered the message fetch of
\* handler h, as the number of messages it held then.  A messageCreate handler
\* issues the fetch in the step of its event, when its trigger was the newest
\* message; the answer of a backfill fetch is taken at its completion.
AnswerTimes(h) ==
    IF hs[h].kind = "messageCreate" THEN hs[h].trigger..Len(msgs) ELSE {Len(msgs)}

\* await channel.messages.fetch({ limit }) resolves to what the platform
\* answered when it held n messages.
MessagesFetchAnswered(h, n, col) ==
    /\ phase = "connected"
    /\ hs[h].pc = "msgFetch"
    /\ n \in AnswerTimes(h)
    /\ col \in FetchResultsAt(hs[h].chan, FetchLimit(hs[h]), n)
    /\ Apply(h, onMessagesFetched(Eff(h, hs[h]), col))
    /\ delivered' = Nothing
    /\ UNCHANGED <<variant, env, raw, processed, readyEmits, quota, phase, exitCode, msgs>>

SnapshotSetups ==
    {<<"multi", PlainForward, OnlyLiveStock>>, <<"single", SlashForward, NoChannels>>}

InitSnapshot == InitWith(SnapshotSetups, MaxMsgs)

NextSnapshot ==
    \/ Boot
    \/ LoginFail
    \/ Ready
    \/ Reconnect
    \/ \E c \in Channels \cup UncachedChannels, bot \in BotFlags : Arrive(c, bot)
    \/ \E h \in 1..Len(hs), outcome \in {"ok", "null", "throw"} :
          ChannelFetchSettle(h, outcome)
    \/ \E h \in 1..Len(hs), n \in 0..Len(msgs) :
          \E col \in FetchResultsAt(hs[h].chan, FetchLimit(hs[h]), n) :
             MessagesFetchAnswered(h, n, col)
    \/ \E h \in 1..Len(hs) : MessagesFetchReject(h)
    \/ \E h \in 1..Len(hs), status \in Statuses, ok \in BOOLEAN :
          HttpRespond(h, status, ok)
    \/ \E h \in 1..Len(hs) : HttpFail(h)
    \/ UnhandledRejection

\* Message fetches of concurrent handlers that complete in any order.
SpecSnapshot == InitSnapshot /\ [][NextSnapshot]_vars

-----------------------------------------------------------------------------
\* processMessage on its own, over a bounded set of raw messages.

TextAlphabet == {"a", "*", "_", " ", "\n"}

\* Every text of at most MaxLen characters of the alphabet.
ShortTexts == UNION {[1..n -> TextAlphabet] : n \in 0..MaxLen}

\* Longer texts: underline, bold next to italic, emoji, a relative timestamp.
LongTexts ==
    {<<"_", "_", "u", "_", "_">>,
     <<"*", "*", "b", "*", "*", " ", "*", "i", "*">>,
     <<"h", "i", " ", "<", ":", "s", "m", ":", "1", "2", ">", " ", "*", "*", "w", "*", "*">>,
     <<"<", ":", "a", ":", "1", ">", "<", ":", "b", "_", ":", "2", ">">>,
     <<"<", "t", ":", "3", "6", "6", "1", ":", "R", ">">>,
     <<"*", "*", "a", "*", "*", "*", "*", "b", "*", "*">>}

Field(name, value) == [name |-> Str(name), value |-> Str(value)]

Titles == {JsUndefined, Str(<<>>), Str(<<"T">>), Str(<<"*", "*", "T">>)}
Descriptions == {JsUndefined, JsNull, Str(<<>>), Str(<<"d">>), Str(<<"d", "*", "*">>)}
FieldLists ==
    {JsUndefined, Arr(<<>>), Arr(<<Field(<<"n">>, <<"v">>)>>),
     Arr(<<Field(<<"n">>, <<"v">>), Field(<<"k">>, <<"w">>)>>)}

Embeds == [title : Titles, description : Descriptions, fields : FieldLists]

\* The embeds that messages with two embeds are made of.
PairEmbeds ==
    {e \in Embeds :
        /\ e.title \in {JsUndefined, Str(<<"T">>)}
        /\ e.description \in {JsUndefined, Str(<<"d">>)}
        /\ e.fields = JsUndefined}

EmbedLists ==
    {Arr(<<e>>) : e \in Embeds} \cup {Arr(<<e[1], e[2]>>) : e \in PairEmbeds \X PairEmbeds}

\* The texts of the messages that carry embeds.
EmbedTexts == {JsUndefined, Str(<<>>), Str(<<"r">>), Str(<<" ", "r", "*">>)}

Attachment(url, name, contentType) ==
    [url |-> url, name |-> name, contentType |-> contentType]

\* The attachments of the messages that carry some.
AttachmentLists ==
    {Arr(<<Attachment("u", "n", "t")>>),
     Arr(<<Attachment("u", "n", "t"), Attachment("u2", "n2", "t2")>>)}

RawMessages ==
    {[PlainMessage(1) EXCEPT !.content = c, !.embeds = e] :
        c \in {JsUndefined, JsNull} \cup {Str(t) : t \in ShortTexts \cup LongTexts},
        e \in {JsUndefined, Arr(<<>>)}}
    \cup {[PlainMessage(1) EXCEPT !.content = c, !.embeds = e] :
            c \in EmbedTexts, e \in EmbedLists}
    \cup {[PlainMessage(1) EXCEPT !.attachments = a] : a \in AttachmentLists}

InitNormalize ==
    /\ variant \in Variants
    /\ env = EnvOf("t", PlainForward, OnlyLiveStock)
    /\ quota = 0
    /\ phase = "normalize"
    /\ exitCode = -1
    /\ msgs = <<>>
    /\ hs = <<>>
    /\ posts = <<>>
    /\ ncalls = 0
    /\ lastCall = NoReport
    /\ delivered = Nothing
    /\ readyEmits = 0
    /\ raw \in RawMessages
    /\ processed = NoPayload

\* const processed = processMessage(raw)
Normalize ==
    /\ phase = "normalize"
    /\ processed = NoPayload
    /\ processed' = processMessage(raw, IF variant = "multi" THEN "LiveStock" ELSE NoTag)
    /\ UNCHANGED <<variant, env, raw, quota, phase, exitCode, msgs, hs, posts, ncalls,
                   lastCall, delivered, readyEmits>>

NextNormalize == Normalize

SpecNormalize == InitNormalize /\ [][NextNormalize]_vars

-----------------------------------------------------------------------------
\* Properties.

Handlers == 1..Len(hs)

\* The requests issued by forward call k.
PostsOfCall(k) == {i \in 1..Len(posts) : posts[i].call = k}

ConfigMissing ==
    \/ env.NEXT_API_URL \in {UndefinedUrl, <<>>}
    \/ env.DISCORD_POST_SECRET \in {Undefined, ""}

\* C1: with NEXT_API_URL or DISCORD_POST_SECRET unset or empty, no forward call
\* of any program issues an HTTP request: every call made has returned within
\* the step that made it, without an error.
C1_ForwarderNoOp ==
    ConfigMissing =>
        /\ posts = <<>>
        /\ \A h \in Handlers : hs[h].pc # "post" /\ hs[h].call = 0
        /\ lastCall.level \in {"none", "warn"}
        /\ ~lastCall.threw

\* C1 witness: the batch forwarder was called with an empty secret and returned
\* after its warning.
C1_Witness ==
    /\ variant = "multi"
    /\ env.DISCORD_POST_SECRET = ""
    /\ ncalls > 0
    /\ lastCall.level = "warn"
    /\ lastCall.call = ncalls

\* C2: a response whose status is outside 200-299 is reported as an error
\* carrying that status (unlike a 2xx response), and nothing is thrown.
C2_RemoteRejected ==
    (delivered.op = "response" /\ delivered.status \notin 200..299) =>
        /\ lastCall.level = "error"
        /\ lastCall.status = delivered.status
        /\ ~lastCall.threw

\* C3: with endpoint and secret set, every forward call made so far has issued
\* exactly one POST, to the api/discord path under the configured base URL,
\* whatever its outcome was.
C3_OnePostPerCall ==
    ~ConfigMissing =>
        /\ \A k \in 1..ncalls : Cardinality(PostsOfCall(k)) = 1
        /\ \A i \in 1..Len(posts) :
              /\ posts[i].call \in 1..ncalls
              /\ posts[i].url \in {env.NEXT_API_URL \o ApiPath, BaseUrl \o ApiPath}

\* C3 witness: a forward call ended in a transport failure and another one in a
\* response, each after its single request.
C3_Witness ==
    /\ ~ConfigMissing
    /\ delivered.op = "failure"
    /\ lastCall.level = "error"
    /\ Cardinality(PostsOfCall(lastCall.call)) = 1
    /\ \E h \in Handlers : hs[h].pc = "done" /\ hs[h].result = "completed"

\* C4: in postToNextBatch, a response whose body cannot be read is still reported
\* with its own status and the placeholder body, not as a transport failure.
C4_BodyReadFailure ==
    (delivered.op = "response" /\ ~delivered.bodyOk) =>
        /\ lastCall.level = "info"
        /\ lastCall.status = delivered.status
        /\ lastCall.text = "<no body>"
        /\ ~lastCall.threw

\* C4 witness: a 500 response with an unreadable body was reported.
C4_Witness ==
    /\ variant \in {"multi", "debug"}
    /\ delivered = Delivery("response", 500, FALSE)
    /\ lastCall.call > 0

\* C5: no event handler's promise ever rejects: every failure is caught inside
\* the handler, in every program.
C5_ErrorContainment == \A h \in Handlers : hs[h].pc # "rejected"

Ascending(payloads) ==
    \A a, b \in 1..Len(payloads) : a < b => payloads[a].createdAt <= payloads[b].createdAt

\* C6: every batch POSTed by the multi-channel program, by the backfill or by
\* the message-arrival handler, is in ascending createdAt order, whatever the
\* order in which the message fetch returned the messages.
C6_BatchAscending ==
    variant = "multi" => \A i \in 1..Len(posts) : Ascending(posts[i].body.messages)

\* C7: event handling is serialized: never are two handlers suspended at an
\* await (a fetch or a POST) at the same time.
C7_Serialized == InFlight <= 1

\* The channel in which the message that triggered an event was created.
EventChannel(trigger) == msgs[trigger].chan

\* The ids the configuration monitors, and the tags it gives a channel id.
MonitoredIds ==
    IF variant = "multi"
    THEN {env.CHANNEL_ID, env.CHANNEL_WEATHER_ID, env.CHANNEL_STOCK_PREDICTOR_ID}
             \ {Undefined, ""}
    ELSE IF env.CHANNEL_ID \in {Undefined, ""} THEN Channels \cup UncachedChannels
    ELSE {env.CHANNEL_ID}

TagsOf(c) ==
    {t \in {"LiveStock", "Weather", "StockPredictor"} :
        \/ t = "LiveStock" /\ env.CHANNEL_ID = c
        \/ t = "Weather" /\ env.CHANNEL_WEATHER_ID = c
        \/ t = "StockPredictor" /\ env.CHANNEL_STOCK_PREDICTOR_ID = c}

\* C8: a messageCreate event from a channel that is not monitored never leads to
\* a message fetch or a POST; what an event from a monitored channel fetches is
\* that channel, and what the multi-channel program POSTs for it carries a tag
\* configured for that channel.
C8_MonitoredFilter ==
    /\ \A h \in Handlers :
          (hs[h].kind = "messageCreate" /\ hs[h].pc \in AwaitPcs) =>
              /\ EventChannel(hs[h].trigger) \in MonitoredIds
              /\ hs[h].chan = EventChannel(hs[h].trigger)
              /\ variant = "multi" => hs[h].tag \in TagsOf(hs[h].chan)
    /\ \A i \in 1..Len(posts) :
          posts[i].kind = "messageCreate" =>
              /\ EventChannel(posts[i].trigger) \in MonitoredIds
              /\ variant = "multi" =>
                    /\ posts[i].body.channel \in TagsOf(EventChannel(posts[i].trigger))
                    /\ \A j \in 1..Len(posts[i].body.messages) :
                          posts[i].body.messages[j].channel = posts[i].body.channel

\* C8 witness: the multi-channel program ignored an event of an unmonitored
\* channel and POSTed a batch tagged "Weather" for an event of the Weather channel.
C8_Witness ==
    /\ variant = "multi"
    /\ \E h \in Handlers :
          /\ hs[h].kind = "messageCreate"
          /\ hs[h].result = "ignored"
          /\ EventChannel(hs[h].trigger) \in Channels \ MonitoredIds
    /\ \E i \in 1..Len(posts) :
          /\ posts[i].kind = "messageCreate"
          /\ posts[i].body.channel = "Weather"
          /\ EventChannel(posts[i].trigger) = env.CHANNEL_WEATHER_ID

\* C9: the batch a messageCreate handler of the multi-channel program POSTs
\* contains the message that triggered the event.
C9_TriggerInBatch ==
    variant = "multi" =>
        \A i \in 1..Len(posts) :
            posts[i].kind = "messageCreate" =>
                \E j \in 1..Len(posts[i].body.messages) :
                    posts[i].body.messages[j].id = posts[i].trigger

\* The ready handler's POSTs, as positions of the request log.
BackfillPosts == {i \in 1..Len(posts) : posts[i].kind = "ready"}

\* C10: the backfill of the single-message program POSTs the fetched messages
\* oldest first, and issues a POST only once the forward call of the previous
\* one has returned.
C10_BackfillOldestFirst ==
    variant = "single" =>
        \A i, j \in BackfillPosts :
            i < j =>
                /\ posts[i].body.messages[1].createdAt <= posts[j].body.messages[1].createdAt
                /\ \A h \in Handlers : hs[h].call # posts[i].call

\* A step in which the backfill of the multi-channel program gives up the channel
\* handler h is at: its channel fetch settles without a channel, or its message
\* fetch settles without any forward call being made.
ChannelGivenUp(h) ==
    /\ variant = "multi"
    /\ h \in Handlers
    /\ hs[h].kind = "ready"
    /\ hs'[h] # hs[h]
    /\ \/ hs[h].pc = "chanFetch" /\ hs'[h].pc # "msgFetch"
       \/ hs[h].pc = "msgFetch" /\ ncalls' = ncalls

\* C11: when the startup backfill of the multi-channel program cannot resolve a
\* configured channel, or the message fetch of that channel fails, the step POSTs
\* nothing, the process keeps running, and the handler goes on to the channel
\* fetch of the next configured channel (it completes when none is left) and never
\* comes back to the channel it gave up.
C11_ChannelUnavailable ==
    [][\A h \in Handlers :
          ChannelGivenUp(h) =>
              /\ posts' = posts
              /\ phase' = "connected" /\ exitCode' = -1
              /\ IF hs[h].todo = <<>>
                 THEN hs'[h].pc = "done" /\ hs'[h].result = "completed"
                 ELSE /\ hs'[h].pc = "chanFetch"
                      /\ hs'[h].chan = Head(hs[h].todo).id
                      /\ hs'[h].todo = Tail(hs[h].todo)
                      /\ \A i \in 1..Len(hs'[h].todo) : hs'[h].todo[i].id # hs[h].chan]_vars

\* C11 witness: with both channels configured and the forwarder usable, the
\* first channel held a message before the backfill started, nothing was POSTed
\* for it, and the backfill has gone on to fetch the messages of the second
\* channel.
C11_Witness ==
    /\ variant = "multi"
    /\ ~ConfigMissing
    /\ env.CHANNEL_ID = "c1" /\ env.CHANNEL_WEATHER_ID = "c2"
    /\ Len(msgs) >= 1
    /\ msgs[1].chan = "c1"
    /\ \A h \in Handlers : hs[h].trigger # 1
    /\ \A i \in BackfillPosts : posts[i].chan # "c1"
    /\ \E h \in Handlers :
          hs[h].kind = "ready" /\ hs[h].chan = "c2" /\ hs[h].tag = "Weather"
          /\ hs[h].pc = "msgFetch"
    /\ phase = "connected"

ReadyHandlers == {h \in Handlers : hs[h].kind = "ready"}

\* The backfill POSTs issued for channel c.
BackfillPostsOf(c) == {i \in BackfillPosts : posts[i].chan = c}

\* No backfill fetches a channel twice: there is at most one ready handler, and
\* the channel it is at is not among those it still has to visit.
OneBackfillFetch ==
    /\ Cardinality(ReadyHandlers) <= 1
    /\ \A h \in ReadyHandlers :
          /\ \A i \in 1..Len(hs[h].todo) :
                variant = "multi" => hs[h].todo[i].id # hs[h].chan
          /\ \A i, j \in 1..Len(hs[h].todo) :
                (variant = "multi" /\ i # j) => hs[h].todo[i].id # hs[h].todo[j].id

\* C12 as stated: however often "ready" is emitted, the backfill runs at most
\* once, and every channel gets at most one backfill fetch and one backfill POST.
C12_BackfillOnePost ==
    /\ OneBackfillFetch
    /\ \A c \in Channels : Cardinality(BackfillPostsOf(c)) <= 1

\* No backfill visits a channel setting twice: there is at most one ready
\* handler, and the tag it is at is not among those it still has to visit.
OneFetchPerSetting ==
    /\ Cardinality(ReadyHandlers) <= 1
    /\ \A h \in ReadyHandlers :
          /\ \A i \in 1..Len(hs[h].todo) :
                variant = "multi" => hs[h].todo[i].tag # hs[h].tag
          /\ \A i, j \in 1..Len(hs[h].todo) :
                (variant = "multi" /\ i # j) => hs[h].todo[i].tag # hs[h].todo[j].tag

\* C12 amended: however often "ready" is emitted, the backfill runs at most
\* once and fetches the channel of every setting at most once; the batch
\* programs POST at most once per channel setting, the single-message program
\* at most once per message of the channel, and never the same message twice.
C12_BackfillOnce ==
    /\ OneFetchPerSetting
    /\ \A c \in Channels :
          IF variant = "single"
          THEN /\ Cardinality(BackfillPostsOf(c)) <= Len(ChannelMessages(c))
               /\ \A i, j \in BackfillPostsOf(c) :
                     i # j => posts[i].body.messages[1].id # posts[j].body.messages[1].id
          ELSE \A i, j \in BackfillPostsOf(c) :
                  i # j => posts[i].body.channel # posts[j].body.channel

\* C12 witness: "ready" was emitted a second time after the backfill had POSTed
\* for its channel.
C12_Witness ==
    /\ readyEmits >= 2
    /\ phase = "connected"
    /\ Cardinality(ReadyHandlers) = 1
    /\ \E c \in Channels : BackfillPostsOf(c) # {}

\* C13: without DISCORD_TOKEN (unset or empty) the process never gets past the
\* check at module load: login is not attempted, no handler ever runs, nothing is
\* fetched or POSTed, and once the check has run the process has exited with a
\* non-zero code.
C13_MissingTokenFatal ==
    env.DISCORD_TOKEN \in {Undefined, ""} =>
        /\ phase \in {"boot", "exited"}
        /\ phase = "exited" => exitCode > 0
        /\ readyEmits = 0
        /\ hs = <<>> /\ posts = <<>> /\ ncalls = 0 /\ msgs = <<>>

\* C13 witness: the process has exited with code 1 on an empty DISCORD_TOKEN.
C13_Witness ==
    /\ env.DISCORD_TOKEN = ""
    /\ phase = "exited"
    /\ exitCode = 1

\* The login was rejected: the process is past the token check and is neither
\* logging in nor has it ever been ready.
LoginRejected ==
    /\ env.DISCORD_TOKEN \notin {Undefined, ""}
    /\ phase \in {"offline", "exited"}
    /\ readyEmits = 0

\* C14: in every program, a rejected login ends the process with a non-zero
\* exit code.
C14_LoginFailureFatal ==
    LoginRejected => phase = "exited" /\ exitCode > 0

\* C15: with CHANNEL_ID unset or empty, the ready handler fetches no channel and
\* POSTs nothing, and the channel check of the messageCreate handler lets a
\* message of any channel through: no handler stops before forwarding unless the
\* message was written by a bot (the debug program stops at its debug flag, before
\* the channel check).
C15_NoChannelId ==
    env.CHANNEL_ID \in {Undefined, ""} =>
        /\ \A h \in ReadyHandlers : hs[h].pc = "done"
        /\ BackfillPosts = {}
        /\ \A h \in Handlers \ ReadyHandlers :
              variant # "debug" =>
                  /\ hs[h].pc # "rejected"
                  /\ hs[h].result = "ignored" => msgs[hs[h].trigger].bot

-----------------------------------------------------------------------------
\* Properties of processMessage.

\* processMessage has returned the payload of raw.
Returned == processed.content.kind # "none"

\* The message has embeds and their combined rendering is not empty.
EmbedsRendered == HasLength(raw.embeds) /\ Len(renderEmbeds(raw.embeds.v)) > 0

\* C16: when the embeds of a message render to a non-empty text, the content of
\* the payload is the same as for the message without its raw text, and no
\* character of the raw text is in it.
C16_EmbedPrecedence ==
    (Returned /\ EmbedsRendered) =>
        /\ processed.content =
              processMessage([raw EXCEPT !.content = Str(<<>>)], processed.channel).content
        /\ \A i \in 1..Len(processed.content.v) : processed.content.v[i] # "r"

\* C16 witness: a message with the text "r" and an embed with title and
\* description got the content of the embed.
C16_Witness ==
    /\ Returned
    /\ raw.content = Str(<<"r">>)
    /\ EmbedsRendered
    /\ processed.content = Str(<<"T", "\n", "d">>)

\* An embed without title, description and fields.
EmptyEmbed(e) == ~Truthy(e.title) /\ ~Truthy(e.description) /\ ~HasLength(e.fields)

AllEmbedsEmpty ==
    HasLength(raw.embeds) /\ \A i \in 1..Len(raw.embeds.v) : EmptyEmbed(raw.embeds.v[i])

\* C17: when a message has embeds and all of them lack title, description and
\* fields, the content of the payload is the translated raw text of the message.
C17_EmptyEmbedFallback ==
    (Returned /\ AllEmbedsEmpty) =>
        processed.content = translate(contentOrEmpty(raw.content))

\* C18: the content of every payload is a string, and it is the empty string
\* when the message has no text (null, undefined or empty) and no embeds
\* (missing or empty).
C18_ContentNeverNull ==
    Returned =>
        /\ processed.content.kind = "string"
        /\ (~Truthy(raw.content) /\ ~HasLength(raw.embeds)) => processed.content.v = <<>>

\* C18 witness: the payload of a message with null content and no embeds field
\* has the empty string as content.
C18_Witness ==
    /\ Returned
    /\ raw.content = JsNull
    /\ raw.embeds = JsUndefined
    /\ processed.content = Str(<<>>)

Whitespace == {" ", "\n", "\r", "\t"}

\* C19: the content of a payload neither starts nor ends with whitespace.
C19_Trimmed ==
    (Returned /\ processed.content.kind = "string" /\ Len(processed.content.v) > 0) =>
        /\ processed.content.v[1] \notin Whitespace
        /\ processed.content.v[Len(processed.content.v)] \notin Whitespace

\* A run *text* of s: two asterisks with a non-empty text without asterisk and
\* line break between them.
HasItalicRun(s) ==
    \E i, j \in 1..Len(s) :
        /\ i + 1 < j
        /\ s[i] = "*" /\ s[j] = "*"
        /\ \A k \in (i + 1)..(j - 1) : s[k] \notin {"*", "\n"}

\* A run __text__ of s.
HasUnderlineRun(s) ==
    \E i, j \in 1..Len(s) :
        /\ i + 2 < j /\ j < Len(s)
        /\ s[i] = "_" /\ s[i + 1] = "_" /\ s[j] = "_" /\ s[j + 1] = "_"
        /\ \A k \in (i + 2)..(j - 1) : s[k] \notin {"_", "\n"}

\* C20: after the translation no *text* and no __text__ run is left in the
\* content: each has become an em or a u element.
C20_ItalicUnderline ==
    (Returned /\ processed.content.kind = "string") =>
        /\ ~HasItalicRun(processed.content.v)
        /\ ~HasUnderlineRun(processed.content.v)

\* The positions of s at which a custom emoji token <:name:digits> starts.
EmojiTokens(s) == {i \in 1..Len(s) : emojiMatch(s, i).end > 0}

\* The positions of s at which an img element of an emoji starts.
EmojiImgs(s) == {i \in 1..Len(s) : s[i] = emojiImg(<<>>, <<>>)[1]}

\* Every emoji token of the text sel has its img element, with its digits in
\* the address and its name as alt, in the text s, and no token is left in s.
EmojisReplaced(sel, s) ==
    /\ EmojiTokens(s) = {}
    /\ Cardinality(EmojiImgs(s)) = Cardinality(EmojiTokens(sel))
    /\ \A i \in EmojiTokens(sel) :
          LET m == emojiMatch(sel, i)
          IN \E j \in 1..Len(s) : At(s, j, emojiImg(m.name, m.digits))

\* A pair of ** markers of s with a text between them that holds no line break.
BoldPairInLine(s) ==
    \E i, j \in 1..Len(s) :
        /\ i + 2 <= j
        /\ At(s, i, <<"*", "*">>) /\ At(s, j, <<"*", "*">>)
        /\ \A k \in (i + 2)..(j - 1) : s[k] \notin LineTerminators

\* A pair of ** markers of s, with any text between them.
BoldPair(s) ==
    \E i, j \in 1..Len(s) :
        i + 2 <= j /\ At(s, i, <<"*", "*">>) /\ At(s, j, <<"*", "*">>)

\* C21 as stated: every emoji token of the selected content has become its img
\* element and every ** pair a strong element, also a pair that spans the line
\* break between the title, the description and the fields of an embed.
C21_GlobalAcrossLines ==
    (Returned /\ processed.content.kind = "string") =>
        /\ EmojisReplaced(selectContent(raw).v, processed.content.v)
        /\ ~BoldPair(processed.content.v)

\* C21 amended: every emoji token of the selected content has become its img
\* element, and no ** pair is left whose text lies within one line: each has
\* become a strong element.
C21_GlobalReplacement ==
    (Returned /\ processed.content.kind = "string") =>
        /\ EmojisReplaced(selectContent(raw).v, processed.content.v)
        /\ ~BoldPairInLine(processed.content.v)

\* C21 witness: a text with two emoji tokens got two img elements, and a text
\* with an emoji token before a bold pair got the img before the strong element.
C21_Witness ==
    /\ Returned
    /\ \/ /\ raw.content = Str(<<"<", ":", "a", ":", "1", ">", "<", ":", "b", "_", ":", "2", ">">>)
          /\ ~HasLength(raw.embeds)
          /\ processed.content.v = emojiImg(<<"a">>, <<"1">>) \o emojiImg(<<"b", "_">>, <<"2">>)
       \/ /\ raw.content = Str(<<"*", "*", "a", "*", "*", "*", "*", "b", "*", "*">>)
          /\ ~HasLength(raw.embeds)
          /\ processed.content.v =
                <<"<strong>", "a", "</strong>", "<strong>", "b", "</strong>">>

\* A field in the format **name:** value.
FormatField(f) ==
    <<"*", "*">> \o ToText(f.name) \o <<":", "*", "*", " ">> \o ToText(f.value)

\* The lines of an embed in the format: the title in bold, the description,
\* then one line per field.
FormatLines(e) ==
    (IF Truthy(e.title) THEN <<(<<"*", "*">> \o e.title.v \o <<"*", "*">>)>> ELSE <<>>)
    \o (IF Truthy(e.description) THEN <<e.description.v>> ELSE <<>>)
    \o (IF HasLength(e.fields)
        THEN [i \in 1..Len(e.fields.v) |-> FormatField(e.fields.v[i])]
        ELSE <<>>)

\* The blocks of the embeds, in embed order, with a blank line between them.
FormatEmbeds(embeds) ==
    Join([i \in 1..Len(embeds) |-> Join(FormatLines(embeds[i]), <<"\n">>)],
         <<"\n", "\n">>)

\* C22: the content of a message with embeds is the translation of its embeds
\* rendered as: the title in bold on its own line, the description, each field
\* as **name:** value on a line, and a blank line between the blocks of
\* consecutive embeds.
C22_EmbedFormat ==
    (Returned /\ EmbedsRendered) =>
        processed.content = translate(Str(FormatEmbeds(raw.embeds.v)))

\* C23: the payload has an attachments sequence that holds the attachments of
\* the raw message, in order, each with its url, name and contentType.
C23_AttachmentPassThrough ==
    Returned =>
        /\ "attachments" \in DOMAIN processed
        /\ Len(processed.attachments) = Len(raw.attachments.v)
        /\ \A i \in 1..Len(raw.attachments.v) :
              /\ processed.attachments[i].url = raw.attachments.v[i].url
              /\ processed.attachments[i].name = raw.attachments.v[i].name
              /\ processed.attachments[i].contentType = raw.attachments.v[i].contentType

\* The createdAt of the newest message of a non-empty batch.
NewestOf(batch) ==
    CHOOSE t \in {batch[j].createdAt : j \in 1..Len(batch)} :
        \A j \in 1..Len(batch) : batch[j].createdAt <= t

\* C24: for every monitored channel of the multi-channel program, whatever the
\* order in which the message fetches of the backfill and of concurrently running
\* messageCreate handlers complete, a batch POSTed after another batch of the
\* same channel does not have an older newest message.
C24_NoStaleBatch ==
    variant = "multi" =>
        \A i, j \in 1..Len(posts) :
            (/\ i < j
             /\ posts[i].chan = posts[j].chan
             /\ posts[i].body.messages # <<>>
             /\ posts[j].body.messages # <<>>)
            => NewestOf(posts[i].body.messages) <= NewestOf(posts[j].body.messages)

\* C25: every POST body of the multi-channel program is an envelope whose
\* messages were all fetched from the one channel of the request, whose tag is a
\* tag configured for that channel's id, and whose payloads all carry that tag;
\* and the tag a messageCreate handler uses for a channel is the tag the startup
\* backfill uses for it, also when two settings hold the same id.
C25_TagConsistency ==
    variant = "multi" =>
        /\ \A i \in 1..Len(posts) :
              /\ posts[i].body.shape = "envelope"
              /\ posts[i].body.channel \in TagsOf(posts[i].chan)
              /\ \A j \in 1..Len(posts[i].body.messages) :
                    /\ msgs[posts[i].body.messages[j].id].chan = posts[i].chan
                    /\ posts[i].body.messages[j].channel = posts[i].body.channel
        /\ \A i, j \in 1..Len(posts) :
              (/\ posts[i].kind = "ready"
               /\ posts[j].kind = "messageCreate"
               /\ posts[i].chan = posts[j].chan)
              => posts[i].body.channel = posts[j].body.channel

\* The place of a tag in the order LiveStock, Weather, StockPredictor.
Rank(tag) ==
    CASE tag = "LiveStock" -> 1
      [] tag = "Weather" -> 2
      [] tag = "StockPredictor" -> 3
      [] OTHER -> 0

\* The id configured under a tag.
IdOf(tag) ==
    CASE tag = "LiveStock" -> env.CHANNEL_ID
      [] tag = "Weather" -> env.CHANNEL_WEATHER_ID
      [] OTHER -> env.CHANNEL_STOCK_PREDICTOR_ID

\* The tags whose id is set and which come after tag t in the fixed order.
LaterTags(t) ==
    {u \in {"LiveStock", "Weather", "StockPredictor"} :
        Rank(u) > Rank(t) /\ IdOf(u) \notin {Undefined, ""}}

\* The forward call of request i has not returned yet.
PostInFlight(i) ==
    \E h \in Handlers : hs[h].pc = "post" /\ hs[h].call = posts[i].call

\* C26: the startup backfill of the multi-channel program visits the configured
\* channels one at a time in the order LiveStock, Weather, StockPredictor and
\* skips the unset ids: while it is at a channel, exactly the later configured
\* channels are still to come, every backfill POST of an earlier channel has
\* completed or failed, and none exists for a later channel; backfill POSTs are
\* issued in that order, at most one of them is in flight, and none carries an
\* empty batch.
C26_SequentialBackfill ==
    variant = "multi" =>
        /\ \A h \in ReadyHandlers :
              hs[h].pc \in AwaitPcs =>
                  /\ hs[h].chan \notin {Undefined, ""}
                  /\ hs[h].chan = IdOf(hs[h].tag)
                  /\ {hs[h].todo[k].tag : k \in 1..Len(hs[h].todo)} = LaterTags(hs[h].tag)
                  /\ \A k \in 1..Len(hs[h].todo) :
                        /\ hs[h].todo[k].id = IdOf(hs[h].todo[k].tag)
                        /\ \A l \in 1..Len(hs[h].todo) :
                              k < l => Rank(hs[h].todo[k].tag) < Rank(hs[h].todo[l].tag)
                  /\ \A i \in BackfillPosts :
                        /\ Rank(posts[i].body.channel) <= Rank(hs[h].tag)
                        /\ PostInFlight(i) =>
                              /\ hs[h].pc = "post" /\ hs[h].call = posts[i].call
                              /\ posts[i].body.channel = hs[h].tag
                        /\ posts[i].body.channel = hs[h].tag => hs[h].pc = "post"
        /\ \A i, j \in BackfillPosts :
              i < j => Rank(posts[i].body.channel) < Rank(posts[j].body.channel)
        /\ Cardinality({i \in BackfillPosts : PostInFlight(i)}) <= 1
        /\ \A i \in BackfillPosts : posts[i].body.messages # <<>>

\* C26 witness: with both channels configured, the backfill has POSTed the batch
\* of the LiveStock channel, that call has returned, the Weather channel held no
\* message, and the backfill has completed without a POST for it.
C26_Witness ==
    /\ variant = "multi"
    /\ env.CHANNEL_ID = "c1" /\ env.CHANNEL_WEATHER_ID = "c2"
    /\ ChannelMessages("c2") = <<>>
    /\ \E i \in BackfillPosts : posts[i].body.channel = "LiveStock" /\ ~PostInFlight(i)
    /\ Cardinality(BackfillPosts) = 1
    /\ \E h \in ReadyHandlers : hs[h].pc = "done" /\ hs[h].result = "completed"

\* The messageCreate handlers of the debug-friendly program whose event is a
\* message of a user (not a bot) in the monitored channel.
UserEventHandlers ==
    {h \in Handlers :
        /\ hs[h].kind = "messageCreate"
        /\ ~msgs[hs[h].trigger].bot
        /\ EventChannel(hs[h].trigger) = env.CHANNEL_ID}

\* C27: with ALLOW_BOT_MESSAGES_FOR_DEBUG = false the debug-friendly program
\* ignores only the messages of bots: the handler of a user's message in the
\* monitored channel is not ended as ignored: it is at the fetch of the latest 2
\* messages of that channel or at its forward call, or has ended after them.
C27_BotOnlyFilter ==
    (variant = "debug" /\ ~ALLOW_BOT_MESSAGES_FOR_DEBUG) =>
        \A h \in UserEventHandlers :
            /\ hs[h].result # "ignored"
            /\ hs[h].pc \in AwaitPcs \cup {"done"}
            /\ hs[h].pc \in AwaitPcs => hs[h].chan = env.CHANNEL_ID
=============================================================================
